---- MODULE Spec2Model ----
(***************************************************************************)
(* Model of ibis/expr/schema.py: the Schema value type (three parallel     *)
(* sequences names / types / descriptions plus the _name_locs index), its  *)
(* derivations (delete, append, from_tuples, from_dict), its comparisons   *)
(* and the multiple-dispatch constructor `schema`.                         *)
(*                                                                         *)
(* Python values are modelled by what the code can observe of them:        *)
(*   - a list or tuple is [kind |-> "list" | "tuple", elems |-> <<...>>];  *)
(*     list == tuple is False and list + tuple raises TypeError;           *)
(*   - None is the string NoneVal; an omitted argument is NoArg;           *)
(*   - a Schema object is a record of its four slots; names and types are  *)
(*     always lists (list(names), list(map(...))) and are kept as plain    *)
(*     sequences, descriptions is stored as passed and keeps its kind;     *)
(*   - positions are 0-based as in the code, sequences are 1-based.        *)
(***************************************************************************)
EXTENDS Integers, Sequences, FiniteSets, TLC

VARIABLES heap, out

vars == <<heap, out>>

\* ---------------------------------------------------------------- bounds
MaxLen == 2

MaxSchemas == 2

Names == {"a", "b"}

TypeDescs == {"int", "int64"}

NoneVal == "None"

Descs == {NoneVal, "d"}

NoArg == [kind |-> "omitted", elems |-> <<>>]

\* ------------------------------------------------------ python sequences
RECURSIVE SeqsUpTo(_, _)
SeqsUpTo(S, n) ==
    IF n = 0 THEN {<<>>}
    ELSE LET prev == SeqsUpTo(S, n - 1)
         IN prev \cup {Append(s, x) : s \in {p \in prev : Len(p) = n - 1}, x \in S}

Range(s) == {s[i] : i \in 1..Len(s)}

Min(a, b) == IF a < b THEN a ELSE b

PyList(s) == [kind |-> "list", elems |-> s]

PyTuple(s) == [kind |-> "tuple", elems |-> s]

\* x == y on two list/tuple values
PyEq(x, y) == x.kind = y.kind /\ x.elems = y.elems

\* x + y on two list/tuple values
PyConcat(x, y) ==
    IF x.kind = y.kind
    THEN [err |-> "", val |-> [kind |-> x.kind, elems |-> x.elems \o y.elems]]
    ELSE [err |-> "TypeError", val |-> x]

\* zip(a, b, c): stops at the shortest
Zip3(a, b, c) ==
    [i \in 1..Min(Len(a), Min(Len(b), Len(c))) |-> <<a[i], b[i], c[i]>>]

\* dt.dtype: canonical type of a type descriptor
dtype(t) ==
    CASE t = "int" -> "int64"
      [] t = "int64" -> "int64"
      [] OTHER -> t

MapSeq(s) == [i \in 1..Len(s) |-> dtype(s[i])]

\* ------------------------------------------------------------ class Schema
\* self._name_locs = dict((v, i) for i, v in enumerate(self.names)):
\* a later occurrence of a name overwrites an earlier one
name_locs(names) ==
    [n \in Range(names) |->
        (CHOOSE i \in 1..Len(names) :
            names[i] = n /\ \A j \in (i + 1)..Len(names) : names[j] # n) - 1]

\* what a call that raises leaves in place of an object
NoObj == [names |-> <<>>, types |-> <<>>, descriptions |-> NoArg,
          name_locs |-> <<>>]

Raise(e) == [err |-> e, obj |-> NoObj]

\* the constructor without its duplicate check
SchemaUnchecked(names, types, descriptions) ==
    [err |-> "",
     obj |-> [names |-> names,
              types |-> MapSeq(types),
              descriptions |->
                  IF descriptions = NoArg
                  THEN PyList([i \in 1..Len(names) |-> NoneVal])
                  ELSE descriptions,
              name_locs |-> name_locs(names)]]

\* Schema(names, types, descriptions): [err, obj]; obj is the new object
\* when err = ""
Schema(names, types, descriptions) ==
    LET self == [names |-> names,
                 types |-> MapSeq(types),
                 descriptions |->
                     IF descriptions = NoArg
                     THEN PyList([i \in 1..Len(names) |-> NoneVal])
                     ELSE descriptions,
                 name_locs |-> name_locs(names)]
    IN IF Cardinality(DOMAIN self.name_locs) < Len(self.names)
       THEN Raise("IntegrityError")
       ELSE [err |-> "", obj |-> self]

hash(self) == <<"Schema", self.names, self.types, self.descriptions.elems>>

len(self) == Len(self.names)

contains(self, name) == name \in DOMAIN self.name_locs

\* self[name]: the dict is built from two subscript expressions and the
\* function ends without a return statement
getitem(self, name) ==
    IF name \notin DOMAIN self.name_locs
    THEN [err |-> "KeyError", val |-> NoneVal]
    ELSE LET loc == self.name_locs[name]
         IN IF loc + 1 > Len(self.types) \/ loc + 1 > Len(self.descriptions.elems)
            THEN [err |-> "IndexError", val |-> NoneVal]
            ELSE LET item == <<self.types[loc + 1],
                               self.descriptions.elems[loc + 1]>>
                 IN [err |-> "", val |-> NoneVal]

items(self) == Zip3(self.names, self.types, self.descriptions.elems)

\* the triples of items() whose name is kept, in order
RECURSIVE Kept(_, _)
Kept(its, names_to_delete) ==
    IF its = <<>> THEN <<>>
    ELSE IF its[1][1] \in names_to_delete
         THEN Kept(Tail(its), names_to_delete)
         ELSE <<its[1]>> \o Kept(Tail(its), names_to_delete)

Column(its, k) == [i \in 1..Len(its) |-> its[i][k]]

\* delete that skips the names that are no column instead of raising
deleteSkipMissing(self, names_to_delete) ==
    LET kept == Kept(items(self), names_to_delete)
    IN Schema(Column(kept, 1), Column(kept, 2), PyList(Column(kept, 3)))

delete(self, names_to_delete) ==
    IF \E name \in names_to_delete : ~contains(self, name)
    THEN Raise("KeyError")
    ELSE LET kept == Kept(items(self), names_to_delete)
         IN Schema(Column(kept, 1), Column(kept, 2), PyList(Column(kept, 3)))

\* values: a sequence of 2-tuples and 3-tuples
from_tuples(values) ==
    LET padded == [i \in 1..Len(values) |->
                      IF Len(values[i]) = 2
                      THEN values[i] \o <<NoneVal>> ELSE values[i]]
    IN IF Len(padded) = 0
       THEN Schema(<<>>, <<>>, PyList(<<>>))
       ELSE Schema(Column(padded, 1), Column(padded, 2),
                   PyTuple(Column(padded, 3)))

\* dictionary: the items of a mapping, in iteration order
from_dict(dictionary) ==
    IF Len(dictionary) = 0
    THEN Raise("TypeError")
    ELSE Schema(Column(dictionary, 1), Column(dictionary, 2), NoArg)

equals(self, other) ==
    /\ self.names = other.names
    /\ self.types = other.types
    /\ PyEq(self.descriptions, other.descriptions)

eq(self, other) == equals(self, other)

\* > computed as >=
gtNotStrict(self, other) == Range(items(other)) \subseteq Range(items(self))

gt(self, other) ==
    /\ Range(items(other)) \subseteq Range(items(self))
    /\ Range(items(other)) # Range(items(self))

ge(self, other) == Range(items(other)) \subseteq Range(items(self))

append(self, schema) ==
    LET d == PyConcat(self.descriptions, schema.descriptions)
    IN IF d.err # ""
       THEN Raise(d.err)
       ELSE Schema(self.names \o schema.names,
                   self.types \o schema.types, d.val)

\* name_at_position that checks the upper bound only, so that a negative
\* position counts from the end as Python subscripts do
nameAtPositionWrapping(self, i) ==
    LET N == Len(self.names)
    IN IF i > N - 1 \/ i < 0 - N
       THEN [err |-> "ValueError", val |-> NoneVal]
       ELSE [err |-> "", val |-> self.names[IF i < 0 THEN N + i + 1 ELSE i + 1]]

name_at_position(self, i) ==
    LET upper == Len(self.names) - 1
    IN IF ~(0 <= i /\ i <= upper)
       THEN [err |-> "ValueError", val |-> NoneVal]
       ELSE [err |-> "", val |-> self.names[i + 1]]

\* ------------------------------------------------- schema = Dispatcher(...)
\* the classes an argument of each modelled class is an instance of
\* (Schema defines __iter__, so it is a collections.Iterable)
Bases(cls) ==
    CASE cls = "Schema" -> {"Schema", "Iterable"}
      [] cls = "dict" -> {"Mapping", "Iterable"}
      [] cls = "list" -> {"Iterable"}
      [] cls = "tuple" -> {"Iterable"}
      [] OTHER -> {}

\* issubclass between the registered classes
IsSubclass(a, b) == a = b \/ (a \in {"Schema", "Mapping"} /\ b = "Iterable")

\* the registrations without the one for Schema
RegistryWithoutIdentity ==
    { [sig |-> <<"Mapping">>, func |-> "schema_from_mapping"],
      [sig |-> <<"Iterable">>, func |-> "schema_from_pairs"],
      [sig |-> <<"Iterable", "Iterable">>, func |-> "schema_from_names_types"],
      [sig |-> <<"Iterable", "Iterable", "Iterable">>,
       func |-> "schema_from_names_types_descriptions"] }

\* the @schema.register(...) lines
Registry ==
    { [sig |-> <<"Schema">>, func |-> "identity"],
      [sig |-> <<"Mapping">>, func |-> "schema_from_mapping"],
      [sig |-> <<"Iterable">>, func |-> "schema_from_pairs"],
      [sig |-> <<"Iterable", "Iterable">>, func |-> "schema_from_names_types"],
      [sig |-> <<"Iterable", "Iterable", "Iterable">>,
       func |-> "schema_from_names_types_descriptions"] }

Supercedes(a, b) ==
    /\ Len(a) = Len(b)
    /\ \A i \in 1..Len(a) : IsSubclass(a[i], b[i])

Matching(classes) ==
    {r \in Registry :
        /\ Len(r.sig) = Len(classes)
        /\ \A i \in 1..Len(classes) : r.sig[i] \in Bases(classes[i])}

\* the implementation the dispatcher calls: the matching signature that no
\* other matching signature is more specific than; "" when none matches
Resolve(classes) ==
    LET cands == Matching(classes)
    IN IF cands = {} THEN ""
       ELSE (CHOOSE r \in cands :
                \A t \in cands : t # r => ~Supercedes(t.sig, r.sig)).func

\* ------------------------------------------------------------------ inputs
NameSeqs == SeqsUpTo(Names, MaxLen)

TypeSeqs == SeqsUpTo(TypeDescs, MaxLen)

DescSeqs == SeqsUpTo(Descs, MaxLen)

\* the descriptions argument for n names: omitted, or a list of n descriptions
DescLists(n) == {PyList(d) : d \in {e \in DescSeqs : Len(e) = n}}

DescArgs(n) == {NoArg} \cup DescLists(n)

\* (name, type) tuples and (name, type, description) tuples that carry a
\* description
Tuples ==
    {<<n, t>> : n \in Names, t \in TypeDescs}
        \cup {<<n, t, d>> : n \in Names, t \in TypeDescs,
                            d \in Descs \ {NoneVal}}

TupleSeqs == SeqsUpTo(Tuples, MaxLen)

\* the items of a name -> type mapping: keys are distinct
Dicts ==
    {m \in SeqsUpTo({<<n, t>> : n \in Names, t \in TypeDescs}, MaxLen) :
        \A i, j \in 1..Len(m) : m[i][1] = m[j][1] => i = j}

Positions == (0 - 1)..MaxLen

Ids == 1..Len(heap)

\* ------------------------------------------------------------------- state
\* heap: the Schema objects alive, by identity (index); out: the last call,
\* its arguments and what it returned or raised.  id/obj are the identity and
\* slots of a returned Schema, val any other returned value.
Call(op, self, arg, err, id, obj, val) ==
    [op |-> op, self |-> self, arg |-> arg, err |-> err,
     id |-> id, obj |-> obj, val |-> val]

Init ==
    /\ heap = <<>>
    /\ out = Call("", 0, <<>>, "", 0, NoObj, NoneVal)

\* a call that returns a new Schema object or raises: r is [err, obj].  The
\* new object is kept on the heap while there is room for it.
Returns(op, self, arg, r) ==
    /\ out' = Call(op, self, arg, r.err,
                   IF r.err = "" THEN Len(heap) + 1 ELSE 0, r.obj, NoneVal)
    /\ heap' = IF r.err = "" /\ Len(heap) < MaxSchemas
               THEN Append(heap, r.obj) ELSE heap

\* a call that returns a value that is no Schema, or raises
Yields(op, self, arg, err, val) ==
    /\ out' = Call(op, self, arg, err, 0, NoObj, val)
    /\ heap' = heap

\* ----------------------------------------------------------------- actions
Construct ==
    /\ Len(heap) < MaxSchemas
    /\ \E names \in NameSeqs, types \in TypeSeqs :
       \E descriptions \in DescArgs(Len(names)) :
          Returns("Schema", 0, <<names, types, descriptions>>,
                  Schema(names, types, descriptions))

FromTuples ==
    /\ Len(heap) < MaxSchemas
    /\ \E values \in TupleSeqs :
          Returns("from_tuples", 0, values, from_tuples(values))

FromDict ==
    /\ Len(heap) < MaxSchemas
    /\ \E dictionary \in Dicts :
          Returns("from_dict", 0, dictionary, from_dict(dictionary))

\* delete that removes the columns from self and returns self
DeleteInPlace ==
    \E s \in Ids, names_to_delete \in SUBSET Names :
        LET r == delete(heap[s], names_to_delete)
        IN /\ out' = Call("delete", s, names_to_delete, r.err,
                          IF r.err = "" THEN s ELSE 0, r.obj, NoneVal)
           /\ heap' = IF r.err = "" THEN [heap EXCEPT ![s] = r.obj] ELSE heap

Delete ==
    \E s \in Ids, names_to_delete \in SUBSET Names :
        Returns("delete", s, names_to_delete, delete(heap[s], names_to_delete))

AppendSchema ==
    \E s \in Ids, o \in Ids :
        Returns("append", s, o, append(heap[s], heap[o]))

GetItem ==
    \E s \in Ids, name \in Names :
        LET r == getitem(heap[s], name)
        IN Yields("getitem", s, name, r.err, r.val)

Contains ==
    \E s \in Ids, name \in Names :
        Yields("contains", s, name, "", contains(heap[s], name))

LenOf ==
    \E s \in Ids : Yields("len", s, <<>>, "", len(heap[s]))

NameAtPosition ==
    \E s \in Ids, i \in Positions :
        LET r == name_at_position(heap[s], i)
        IN Yields("name_at_position", s, i, r.err, r.val)

Equals ==
    \E s \in Ids, o \in Ids :
        Yields("equals", s, o, "", equals(heap[s], heap[o]))

Eq ==
    \E s \in Ids, o \in Ids :
        Yields("eq", s, o, "", eq(heap[s], heap[o]))

Gt ==
    \E s \in Ids, o \in Ids :
        Yields("gt", s, o, "", gt(heap[s], heap[o]))

Ge ==
    \E s \in Ids, o \in Ids :
        Yields("ge", s, o, "", ge(heap[s], heap[o]))

Hash ==
    \E s \in Ids : Yields("hash", s, <<>>, "", hash(heap[s]))

\* from_tuples handed an iterable of column names (a Schema or the keys of a
\* mapping) instead of tuples: no element has length 2, and zip(*values) of
\* one-character names is a single tuple, which does not unpack into three
from_tuples_of_names(values) ==
    IF Len(values) = 0
    THEN Schema(<<>>, <<>>, PyList(<<>>))
    ELSE Raise("ValueError")

\* an argument of the dispatcher: its class and its value (for a Schema, the
\* identity of the object)
Arg(cls, val) == [cls |-> cls, val |-> val]

Classes(args) == [i \in 1..Len(args) |-> args[i].cls]

schema_from_mapping(d) == from_dict(d.val)

schema_from_pairs(lst) ==
    CASE lst.cls = "Schema" -> from_tuples_of_names(heap[lst.val].names)
      [] lst.cls = "dict" -> from_tuples_of_names(Column(lst.val, 1))
      [] OTHER -> from_tuples(lst.val)

schema_from_names_types(names, types) == Schema(names.val, types.val, NoArg)

schema_from_names_types_descriptions(names, types, descriptions) ==
    Schema(names.val, types.val,
           [kind |-> descriptions.cls, elems |-> descriptions.val])

\* schema(*args)
Dispatch(args) ==
    LET func == Resolve(Classes(args))
    IN CASE func = "" ->
              Returns("schema", 0, args, Raise("NotImplementedError"))
         [] func = "identity" ->
              /\ out' = Call("schema", 0, args, "", args[1].val,
                             heap[args[1].val], NoneVal)
              /\ heap' = heap
         [] func = "schema_from_mapping" ->
              Returns("schema", 0, args, schema_from_mapping(args[1]))
         [] func = "schema_from_pairs" ->
              Returns("schema", 0, args, schema_from_pairs(args[1]))
         [] func = "schema_from_names_types" ->
              Returns("schema", 0, args,
                      schema_from_names_types(args[1], args[2]))
         [] func = "schema_from_names_types_descriptions" ->
              Returns("schema", 0, args,
                      schema_from_names_types_descriptions(
                          args[1], args[2], args[3]))

DispatchSchema ==
    \E s \in Ids : Dispatch(<<Arg("Schema", s)>>)

DispatchMapping ==
    /\ Len(heap) < MaxSchemas
    /\ \E d \in Dicts : Dispatch(<<Arg("dict", d)>>)

DispatchPairs ==
    /\ Len(heap) < MaxSchemas
    /\ \E values \in TupleSeqs : Dispatch(<<Arg("list", values)>>)

DispatchNamesTypes ==
    /\ Len(heap) < MaxSchemas
    /\ \E names \in NameSeqs, types \in TypeSeqs :
          Dispatch(<<Arg("list", names), Arg("list", types)>>)

DispatchNamesTypesDescriptions ==
    /\ Len(heap) < MaxSchemas
    /\ \E names \in NameSeqs, types \in TypeSeqs :
       \E d \in DescLists(Len(names)) :
          Dispatch(<<Arg("list", names), Arg("list", types),
                     Arg(d.kind, d.elems)>>)

DispatchInt == Dispatch(<<Arg("int", MaxLen)>>)

Next ==
    \/ Construct
    \/ FromTuples
    \/ FromDict
    \/ Delete
    \/ AppendSchema
    \/ GetItem
    \/ Contains
    \/ LenOf
    \/ NameAtPosition
    \/ Equals
    \/ Eq
    \/ Gt
    \/ Ge
    \/ Hash
    \/ DispatchSchema
    \/ DispatchMapping
    \/ DispatchPairs
    \/ DispatchNamesTypes
    \/ DispatchNamesTypesDescriptions
    \/ DispatchInt

Spec == Init /\ [][Next]_vars

\* ================================================================== claims
Objects == Range(heap) \cup (IF out.id # 0 THEN {out.obj} ELSE {})

HasDuplicate(names) ==
    \E i, j \in 1..Len(names) : i # j /\ names[i] = names[j]

\* the (name, type, description) triple of every column that has all three
Triples(S) ==
    {<<S.names[i], S.types[i], S.descriptions.elems[i]>> :
        i \in (1..Len(S.names)) \cap (1..Len(S.types))
                \cap (1..Len(S.descriptions.elems))}

SameColumns(A, B) ==
    /\ A.names = B.names
    /\ A.types = B.types
    /\ A.descriptions.elems = B.descriptions.elems

\* C1: every Schema an operation produces has as many types and as many
\* descriptions as it has names
C1_LengthsAgree ==
    \A S \in Objects :
        /\ Len(S.names) = Len(S.types)
        /\ Len(S.names) = Len(S.descriptions.elems)

C3_GetItemReturnsPair ==
    (out.op = "getitem" /\ Len(items(heap[out.self])) = len(heap[out.self])) =>
        LET S == heap[out.self]
        IN IF \E i \in 1..Len(S.names) : S.names[i] = out.arg
           THEN LET i == CHOOSE k \in 1..Len(S.names) : S.names[k] = out.arg
                IN /\ out.err = ""
                   /\ out.val # NoneVal
                   /\ out.val = <<S.types[i], S.descriptions.elems[i]>>
           ELSE out.err = "KeyError"

\* C4: delete is all-or-nothing: when a name to delete is no column of S it
\* raises KeyError and returns no Schema; otherwise it returns a Schema whose
\* triples are those of S whose name is not deleted, in the order of S
C4_DeleteAllOrNothing ==
    out.op = "delete" =>
        LET S == heap[out.self]
            R == out.arg
            keep(t) == t[1] \notin R
        IN IF \E n \in R : n \notin Range(S.names)
           THEN out.err = "KeyError" /\ out.id = 0
           ELSE /\ out.err = ""
                /\ out.id # 0
                /\ items(out.obj) = SelectSeq(items(S), keep)
                /\ Len(out.obj.names) = Len(items(out.obj))
                /\ Len(out.obj.types) = Len(items(out.obj))
                /\ Len(out.obj.descriptions.elems) = Len(items(out.obj))

C4_Witness ==
    /\ out.op = "delete"
    /\ out.err = "KeyError"
    /\ \E n \in out.arg : n \in Range(heap[out.self].names)

\* C5: A.append(B) returns the Schema of A's columns followed by B's when A
\* and B share no name, and raises IntegrityError when they share one,
\* however A and B were built
C5_AppendConcatenates ==
    out.op = "append" =>
        LET A == heap[out.self]
            B == heap[out.arg]
        IN IF Range(A.names) \cap Range(B.names) = {}
           THEN /\ out.err = ""
                /\ out.obj.names = A.names \o B.names
                /\ out.obj.types = A.types \o B.types
                /\ out.obj.descriptions.elems
                       = A.descriptions.elems \o B.descriptions.elems
           ELSE out.err = "IntegrityError"

\* C6: two Schemas with the same triples in the same order compare equal
\* (equals and ==) and hash identically, whatever path built them; two
\* Schemas with the same triples in a different order compare unequal
C6_StructuralEquality ==
    /\ out.op \in {"equals", "eq"} =>
          LET A == heap[out.self]
              B == heap[out.arg]
          IN /\ SameColumns(A, B) => out.val = TRUE
             /\ (Triples(A) = Triples(B) /\ ~SameColumns(A, B))
                    => out.val = FALSE
    /\ \A A \in Range(heap), B \in Range(heap) :
          SameColumns(A, B) => hash(A) = hash(B)

\* C7: A > B exactly when every triple of B is a triple of A and A has a
\* triple that B lacks; A >= B exactly when every triple of B is a triple of
\* A; no Schema is > itself
C7_SupersetOrdering ==
    /\ out.op = "gt" =>
          LET A == heap[out.self]
              B == heap[out.arg]
          IN /\ out.val = ((\A t \in Triples(B) : t \in Triples(A))
                              /\ (\E t \in Triples(A) : t \notin Triples(B)))
             /\ (out.self = out.arg => out.val = FALSE)
             /\ (Triples(A) = Triples(B) => out.val = FALSE)
    /\ out.op = "ge" =>
          LET A == heap[out.self]
              B == heap[out.arg]
          IN out.val = (\A t \in Triples(B) : t \in Triples(A))

C7_Witness ==
    /\ out.op = "gt"
    /\ out.val = TRUE
    /\ Len(heap[out.self].names) = MaxLen
    /\ Len(heap[out.arg].names) = MaxLen - 1

\* C8: schema(x) returns x itself for a Schema, from_dict(x) for a mapping,
\* from_tuples(x) for a sequence of tuples; schema(names, types) and
\* schema(names, types, descriptions) return what the constructor returns;
\* an integer raises the dispatch error and returns no Schema
C8_DispatchByShape ==
    out.op = "schema" =>
        LET args == out.arg
            cls == Classes(args)
            same(r) == /\ out.err = r.err
                       /\ r.err = "" => (out.id = Len(heap) /\ out.obj = r.obj)
                       /\ r.err # "" => out.id = 0
        IN CASE cls = <<"Schema">> ->
                  /\ out.err = ""
                  /\ out.id = args[1].val
                  /\ out.obj = heap[args[1].val]
             [] cls = <<"dict">> -> same(from_dict(args[1].val))
             [] cls = <<"list">> -> same(from_tuples(args[1].val))
             [] cls = <<"list", "list">> ->
                  same(Schema(args[1].val, args[2].val, NoArg))
             [] cls = <<"list", "list", "list">> ->
                  same(Schema(args[1].val, args[2].val, PyList(args[3].val)))
             [] OTHER -> out.err = "NotImplementedError" /\ out.id = 0

C8_Witness ==
    /\ out.op = "schema"
    /\ Classes(out.arg) = <<"Schema">>
    /\ out.id = out.arg[1].val
    /\ Len(heap[out.id].names) = MaxLen

\* C9: name_at_position(i) returns names[i] when 0 <= i <= N - 1 and raises
\* ValueError for every other i; a negative i never counts from the end
C9_NameAtPosition ==
    out.op = "name_at_position" =>
        LET S == heap[out.self]
            i == out.arg
            N == Len(S.names)
        IN IF 0 <= i /\ i <= N - 1
           THEN out.err = "" /\ out.val = S.names[i + 1]
           ELSE out.err = "ValueError"

C9_Witness ==
    /\ out.op = "name_at_position"
    /\ out.arg = 0 - 1
    /\ Len(heap[out.self].names) = MaxLen
    /\ out.err = "ValueError"

\* C10: no call changes an existing Schema object, and a successful delete
\* or append returns an object that is none of the existing ones
C10_NoMutation ==
    [][/\ \A i \in 1..Len(heap) : i <= Len(heap') /\ heap'[i] = heap[i]
       /\ (out'.op \in {"delete", "append"} /\ out'.err = "")
              => out'.id \notin 1..Len(heap)]_vars

C10_Witness ==
    /\ out.op = "append"
    /\ out.err = ""
    /\ out.self # out.arg
    /\ out.id \notin {out.self, out.arg}
    /\ Len(out.obj.names) = MaxLen

====
